---- MODULE Spec2Model ----
(***************************************************************************)
(* Probe orchestration of SyncMind-Ai: the POST / handler of the load-test *)
(* router, the k6 load probe (runK6Test) and the Playwright browser probe  *)
(* (runPlaywrightAudit).                                                   *)
(*                                                                         *)
(* Spec      one request handled by the router, its three probes running   *)
(*           concurrently on the event loop.                               *)
(* FairSpec  Spec with the fairness the event loop gives to callbacks.     *)
(* LoadSpec  several runK6Test invocations in flight on one host, sharing  *)
(*           the clock and the temporary directory.                        *)
(* AuditSpec runPlaywrightAudit on its own, over pages and random draws.   *)
(* CalcSpec  the aggregation of the handler (lines 50-159) applied to      *)
(*           metrics, repository signals and browser audits.               *)
(* RepeatSpec several requests computing their derived scores in turn.     *)
(***************************************************************************)
EXTENDS Integers, Sequences, FiniteSets, TLC

\* ------------------------------------------------------------------ bounds
\* number of runK6Test invocations that can be in flight on the host
NumProbes == 2
\* last value of the millisecond clock read by Date.now()
MaxNow == 1
\* how many duration units the model lets a running generator be waited for
MaxWait == 3
\* grace period, in duration units, allowed on top of the requested duration
Grace == 1
\* Math.random() returns a multiple of 1/RandomDen in [0, 1)
RandomDen == 8
\* most img elements on the audited page
MaxImages == 3
\* requests whose derived scores are computed one after the other
MaxRuns == 3

\* -------------------------------------------------------- program constants
\* duration: "5s" handed to runK6Test, taken as one unit of the wait clock
Duration == 1
\* vus: 200 handed to runK6Test
Vus == 200

Probes == 1..NumProbes
Clock == 0..MaxNow
\* the invocation of runK6Test made by the request of Spec
OrchProbe == 1

VARIABLES
  now,        \* Date.now()
  fs,         \* os.tmpdir(): result file name -> file
  k6,         \* per runK6Test invocation: position, resultFile, promise
  req,        \* req.body: which targets were supplied
  mode,       \* process.env.EXECUTION_MODE
  opc,        \* position of the POST / handler
  gh,         \* promise of analyzeGithubRepo
  pw,         \* runPlaywrightAudit: position, browser session, promise
  agg,        \* locals of the handler after the join
  ai,         \* runLiveAuditAI: narrative call and message
  response    \* what the handler sent

vars == <<now, fs, k6, req, mode, opc, gh, pw, agg, ai, response>>
orchVars == <<req, mode, opc, gh, pw, agg, ai, response>>

\* ----------------------------------------------------------------- values
Null == [tag |-> "null"]

\* the number a missing (undefined) or non-finite field evaluates to in
\* arithmetic; it lies below every finite value of the model
NaN == 0 - 1000000000

\* Number.isFinite(v)
IsFinite(v) == v /= NaN

\* a number n/d that need not be an integer
Rat(n, d) == [num |-> n, den |-> d]

\* Math.round: the nearest integer to n/d, halves upwards
Round(n, d) == (2 * n + d) \div (2 * d)

\* Number(x.toFixed(0))
toFixed0(x) == Rat(Round(x.num, x.den), 1)

\* messages of the Errors runK6Test rejects with
ReasonEngineUnavailable == "k6 performance engine is not installed on the server environment."
ReasonExecutionFailed == "k6 execution failed"
ReasonOutputMissing == "K6 output file not found. The test may have crashed without output."
ReasonReadFailed == "Failed to read k6 output"

NoFile == [exists |-> FALSE, writer |-> 0, kind |-> "none", sample |-> 0]

\* summaries the generator can export: index into RawSummary
Samples == {1, 2}

\* the document k6 exports with --summary-export (rates in per mille)
RawSummary(s) ==
  IF s = 1
  THEN [tag |-> "summary", durAvg |-> 1000, durP95 |-> 600, reqRate |-> 50,
        checksFails |-> 1, checksPasses |-> 9, failedPermille |-> 20, vusMax |-> Vus]
  ELSE [tag |-> "summary", durAvg |-> 120, durP95 |-> 300, reqRate |-> 400,
        checksFails |-> 0, checksPasses |-> 10, failedPermille |-> 0, vusMax |-> Vus]

\* JSON.parse(rawData): the document of a well-formed file; see K6ExecCallback
\* for the SyntaxError on a file that is not JSON
JSONparse(file) == [RawSummary(file.sample) EXCEPT !.tag = "summary"] @@ [writer |-> file.writer]

Pending == [status |-> "pending", value |-> Null, reason |-> ""]
Fulfilled(v) == [status |-> "fulfilled", value |-> v, reason |-> ""]
Rejected(r) == [status |-> "rejected", value |-> Null, reason |-> r]
\* the place of a promise before the call that creates it
NotStarted == [status |-> "unstarted", value |-> Null, reason |-> ""]

K6Idle ==
  [pc |-> "idle", resultFile |-> 0, waited |-> 0, promise |-> Pending,
   verResult |-> "none", cmdRan |-> FALSE, wrote |-> FALSE, seen |-> "none",
   cause |-> "none"]

\* --------------------------------------------------------------- runK6Test
\* lines 17-33: the promise executor up to the exec("k6 version") call
runK6Test(i) ==
  k6' = [k6 EXCEPT ![i] = [@ EXCEPT !.pc = "version", !.resultFile = now]]

\* a caller invokes runK6Test
K6Invoke(i) ==
  /\ k6[i].pc = "idle"
  /\ runK6Test(i)
  /\ UNCHANGED <<now, fs, orchVars>>

\* K6VersionCallback without the return of line 36: the rejection is followed
\* by exec(cmd)
K6VersionCallback_NoReturn(i, verErr) ==
  /\ k6[i].pc = "version"
  /\ k6' = [k6 EXCEPT ![i] =
       IF verErr
       THEN [@ EXCEPT !.pc = "running", !.verResult = "err", !.cause = "version",
                      !.cmdRan = TRUE, !.promise = Rejected(ReasonEngineUnavailable)]
       ELSE [@ EXCEPT !.pc = "running", !.verResult = "ok", !.cmdRan = TRUE]]
  /\ UNCHANGED <<now, fs, orchVars>>

\* lines 33-40: the callback of exec("k6 version")
K6VersionCallback(i, verErr) ==
  /\ k6[i].pc = "version"
  /\ k6' = [k6 EXCEPT ![i] =
       IF verErr
       THEN [@ EXCEPT !.pc = "settled", !.verResult = "err", !.cause = "version",
                      !.promise = Rejected(ReasonEngineUnavailable)]
       ELSE [@ EXCEPT !.pc = "running", !.verResult = "ok", !.cmdRan = TRUE]]
  /\ UNCHANGED <<now, fs, orchVars>>

\* the generator process exports its summary to --summary-export
K6GeneratorWrite(i, kind, s) ==
  /\ k6[i].pc = "running"
  /\ ~k6[i].wrote
  /\ fs' = [fs EXCEPT ![k6[i].resultFile] =
              [exists |-> TRUE, writer |-> i, kind |-> kind, sample |-> s]]
  /\ k6' = [k6 EXCEPT ![i].wrote = TRUE]
  /\ UNCHANGED <<now, orchVars>>

\* line 40: exec(cmd, { maxBuffer }) sets no timeout; the generator keeps
\* running and waited counts the duration units since exec(cmd)
K6Wait(i) ==
  /\ k6[i].pc = "running"
  /\ k6[i].waited < MaxWait
  /\ k6' = [k6 EXCEPT ![i].waited = @ + 1]
  /\ UNCHANGED <<now, fs, orchVars>>

\* lines 40-62: the callback of exec(cmd); error covers a non-zero exit and
\* an exceeded maxBuffer, readThrows and unlinkThrows the fs calls throwing
K6ExecCallback(i, error, readThrows, unlinkThrows) ==
  LET f == k6[i].resultFile
      settle(c, p) ==
        k6' = [k6 EXCEPT ![i] = [@ EXCEPT !.pc = "settled", !.cause = c, !.promise = p,
                                          !.waited = 0,
                                          !.seen = IF error THEN "none" ELSE fs[f].kind]]
  IN
  /\ k6[i].pc = "running"
  /\ IF error
     THEN settle("exec-error", Rejected(ReasonExecutionFailed)) /\ UNCHANGED fs
     ELSE IF ~fs[f].exists
     THEN settle("missing", Rejected(ReasonOutputMissing)) /\ UNCHANGED fs
     ELSE IF readThrows
     THEN settle("read-error", Rejected(ReasonReadFailed)) /\ UNCHANGED fs
     ELSE IF unlinkThrows
     THEN settle("unlink-error", Rejected(ReasonReadFailed)) /\ UNCHANGED fs
     ELSE /\ fs' = [fs EXCEPT ![f] = NoFile]
          /\ IF fs[f].kind = "json"
             THEN settle("none", Fulfilled(JSONparse(fs[f])))
             ELSE settle("parse-error", Rejected(ReasonReadFailed))
  /\ UNCHANGED <<now, orchVars>>

\* the millisecond clock advances
Tick ==
  /\ now < MaxNow
  /\ now' = now + 1
  /\ UNCHANGED <<fs, k6, orchVars>>

\* ------------------------------------------------------ runPlaywrightAudit
\* the awaits of the real audit, lines 25-77, in program order
PwSteps == <<"launch", "newContext", "newPage", "goto", "evaluateTiming", "evaluateAudit", "close">>

PwIndex(step) == CHOOSE n \in 1..Len(PwSteps) : PwSteps[n] = step

PwIdle ==
  [pc |-> "idle", browser |-> "none", promise |-> Pending,
   simEntries |-> 0, forceSimulation |-> FALSE, failedAt |-> "none",
   loadTime |-> 0, auditResults |-> Null]

\* what the browser observes of a page: the time page.goto took and what the
\* in-page heuristics of lines 47-70 read from the document
Pages ==
  UNION { { [loadTime |-> t, images |-> n, imagesWithAlt |-> a,
             hasTitle |-> ti, hasMetaDesc |-> md, isHttps |-> h] :
              t \in {0, 1234, 12000}, a \in 0..n,
              ti \in BOOLEAN, md \in BOOLEAN, h \in BOOLEAN } : n \in 0..MaxImages }

\* the five Math.random() calls of lines 14-18, each k/RandomDen
RandomDraws == [1..5 -> {0, 1, RandomDen - 1}]

\* the page and the draws of the request of Spec
SpecPages ==
  { [loadTime |-> 1234, images |-> 3, imagesWithAlt |-> 2,
     hasTitle |-> TRUE, hasMetaDesc |-> FALSE, isHttps |-> TRUE] }
SpecDraws == { [k \in 1..5 |-> 1] }

\* line 48
getScore(condition) == IF condition THEN 100 ELSE 0

\* lines 47-70: the heuristic audit evaluated in the page
auditResults(obs) ==
  [accessibility |-> IF obs.images > 0
                     THEN Rat(obs.imagesWithAlt * 100, obs.images)
                     ELSE Rat(100, 1),
   seo |-> Rat(getScore(obs.hasTitle) + getScore(obs.hasMetaDesc), 2),
   bestPractices |-> Rat(getScore(obs.isHttps) + 100, 2)]

\* line 74: Math.max(0, 100 - loadTime / 100)
performanceScore(loadTime) ==
  IF 100 * 100 - loadTime > 0 THEN Rat(100 * 100 - loadTime, 100) ELSE Rat(0, 100)

\* line 75: Math.min(100, performanceScore + 5)
interactivityScore(perf) ==
  IF perf.num + 5 * perf.den < 100 * perf.den
  THEN Rat(perf.num + 5 * perf.den, perf.den)
  ELSE Rat(100 * perf.den, perf.den)

\* lines 13-19: no loadTimeMs and no isSimulated property
mockResult(rnd) ==
  [tag |-> "audit", path |-> "simulation",
   performance |-> Rat(75 * RandomDen + rnd[1] * 20, RandomDen),
   accessibility |-> Rat(85 * RandomDen + rnd[2] * 10, RandomDen),
   bestPractices |-> Rat(80 * RandomDen + rnd[3] * 15, RandomDen),
   seo |-> Rat(90 * RandomDen + rnd[4] * 10, RandomDen),
   interactivity |-> Rat(70 * RandomDen + rnd[5] * 25, RandomDen),
   loadTimeMs |-> NaN,
   isSimulated |-> FALSE]

\* lines 79-86
finalResult(loadTime, audit) ==
  [tag |-> "audit", path |-> "real",
   performance |-> toFixed0(performanceScore(loadTime)),
   accessibility |-> toFixed0(audit.accessibility),
   bestPractices |-> toFixed0(audit.bestPractices),
   seo |-> toFixed0(audit.seo),
   interactivity |-> toFixed0(interactivityScore(performanceScore(loadTime))),
   loadTimeMs |-> loadTime,
   isSimulated |-> FALSE]

\* lines 8-23: the synchronous part of a call, up to its first await
runPlaywrightAudit(p, forceSimulation) ==
  IF mode = "demo" \/ forceSimulation
  THEN [p EXCEPT !.pc = "timer", !.simEntries = @ + 1, !.forceSimulation = forceSimulation]
  ELSE [p EXCEPT !.pc = "launch"]

\* a caller invokes runPlaywrightAudit(testURL)
PwInvoke ==
  /\ pw.pc = "idle"
  /\ pw' = runPlaywrightAudit(pw, FALSE)
  /\ UNCHANGED <<now, fs, k6, req, mode, opc, gh, agg, ai, response>>

\* lines 25-90: one await of the real audit resolves or throws; obs is what
\* the page shows.  A browser.close() that throws leaves the session closed
\* or open; the constants of the try block are out of scope in the catch.
PwAwait(throws, obs) ==
  /\ pw.pc \in {PwSteps[n] : n \in 1..Len(PwSteps)}
  /\ \E after \in (IF throws /\ pw.pc = "close" THEN {"open", "closed"} ELSE {pw.browser}) :
       pw' = IF throws
             THEN [pw EXCEPT !.pc = "catch", !.failedAt = pw.pc, !.browser = after,
                             !.loadTime = 0, !.auditResults = Null]
             ELSE IF pw.pc = "close"
             THEN [pw EXCEPT !.pc = "settled", !.browser = "closed",
                             !.promise = Fulfilled(finalResult(pw.loadTime, pw.auditResults))]
             ELSE [pw EXCEPT !.pc = PwSteps[PwIndex(pw.pc) + 1],
                             !.browser = IF pw.pc = "launch" THEN "open" ELSE @,
                             !.loadTime = IF pw.pc = "goto" THEN obs.loadTime ELSE @,
                             !.auditResults = IF pw.pc = "evaluateAudit"
                                              THEN auditResults(obs) ELSE @]
  /\ UNCHANGED <<now, fs, k6, req, mode, opc, gh, agg, ai, response>>

\* lines 92-96: the catch block up to its await, or to the recursive call
\* when no browser was launched
PwCatch ==
  /\ pw.pc = "catch"
  /\ pw' = IF pw.browser = "none"
           THEN runPlaywrightAudit(pw, TRUE)
           ELSE [pw EXCEPT !.pc = "catchClose"]
  /\ UNCHANGED <<now, fs, k6, req, mode, opc, gh, agg, ai, response>>

\* lines 94-96: browser.close() of the catch block settles, then the
\* recursive call with forceSimulation
PwCatchClose(throws) ==
  /\ pw.pc = "catchClose"
  /\ \E after \in (IF throws THEN {"open", "closed"} ELSE {"closed"}) :
       pw' = IF throws
             THEN [pw EXCEPT !.pc = "settled", !.browser = after,
                             !.promise = Rejected("browser.close")]
             ELSE runPlaywrightAudit([pw EXCEPT !.browser = after], TRUE)
  /\ UNCHANGED <<now, fs, k6, req, mode, opc, gh, agg, ai, response>>

\* line 20: the timer of the simulation resolves the promise with the
\* mockResult built from the draws rnd of lines 14-18
PwSimTimer(rnd) ==
  /\ pw.pc = "timer"
  /\ pw' = [pw EXCEPT !.pc = "settled", !.promise = Fulfilled(mockResult(rnd))]
  /\ UNCHANGED <<now, fs, k6, req, mode, opc, gh, agg, ai, response>>

\* ------------------------------------------------------- analyzeGithubRepo
Signals(summary, docker, cicd, kubernetes, hasStartScript) ==
  [tag |-> "signals", hasSummary |-> summary, docker |-> docker, cicd |-> cicd,
   kubernetes |-> kubernetes, hasStartScript |-> hasStartScript]

\* repository signal sets the analyzer returns in this model
GithubResults ==
  { Signals(TRUE, TRUE, FALSE, TRUE, TRUE),
    Signals(TRUE, TRUE, TRUE, FALSE, TRUE),
    Signals(FALSE, FALSE, FALSE, FALSE, FALSE) }

\* the promise of analyzeGithubRepo(githubRepo) settles
GithubSettle(outcome) ==
  /\ opc = "probes"
  /\ req.githubRepo
  /\ gh.status = "pending"
  /\ gh' = outcome
  /\ UNCHANGED <<now, fs, k6, req, mode, opc, pw, agg, ai, response>>

\* ------------------------------------------------------------ POST / handler
\* a probe promise handed to Promise.all without its .catch
CatchNull_Rethrow(p) == p

\* .catch(e => null) of lines 28-31, 34-37 and 40-43
CatchNull(p) == IF p.status = "rejected" THEN Fulfilled(Null) ELSE p

\* the three promises handed to Promise.all, lines 27-44
ProbePromises ==
  << IF req.testURL THEN CatchNull(k6[OrchProbe].promise) ELSE Fulfilled(Null),
     IF req.githubRepo THEN CatchNull(gh) ELSE Fulfilled(Null),
     IF req.testURL THEN CatchNull(pw.promise) ELSE Fulfilled(Null) >>

\* Promise.race-like join: settles as soon as one element has settled
PromiseAll_Race(ps) ==
  IF \E n \in 1..Len(ps) : ps[n].status = "rejected"
  THEN Rejected("Promise.all")
  ELSE IF \E n \in 1..Len(ps) : ps[n].status = "fulfilled"
  THEN Fulfilled([n \in 1..Len(ps) |-> ps[n].value])
  ELSE Pending

\* Promise.all: rejected as soon as one element is, fulfilled when all are
PromiseAll(ps) ==
  IF \E n \in 1..Len(ps) : ps[n].status = "rejected"
  THEN Rejected("Promise.all")
  ELSE IF \A n \in 1..Len(ps) : ps[n].status = "fulfilled"
  THEN Fulfilled([n \in 1..Len(ps) |-> ps[n].value])
  ELSE Pending

\* parseK6Data of Utils/Loaddata.js (rates in per mille)
parseK6Data(raw) ==
  [tag |-> "metrics",
   latency |-> [avg |-> raw.durAvg, p95 |-> raw.durP95],
   throughput |-> raw.reqRate,
   failureRateUnderTest |->
     IF raw.checksFails + raw.checksPasses = 0 THEN 0
     ELSE (raw.checksFails * 1000) \div (raw.checksFails + raw.checksPasses),
   serverErrorRate |-> raw.failedPermille,
   vus |-> raw.vusMax]

\* buildChartResponse of Utils/Loaddata.js
buildChartResponse(m) ==
  [tag |-> "charts", latency |-> m.latency, throughput |-> m.throughput]

\* lines 63-67
devOpsScore(g) ==
  (IF g.docker THEN 30 ELSE 0) + (IF g.cicd THEN 30 ELSE 0) +
  (IF g.kubernetes THEN 20 ELSE 0) + (IF g.hasStartScript THEN 20 ELSE 0)

\* productionReady without the CI/CD conjunct of line 72
productionReady_NoCICD(g) == g.hasStartScript /\ g.docker

\* lines 69-72
productionReady(g) == g.hasStartScript /\ g.docker /\ g.cicd

\* riskLevel with the first threshold exclusive
riskLevel_Strict(score) == IF score > 70 THEN "low" ELSE IF score >= 40 THEN "medium" ELSE "high"

\* lines 74-79
riskLevel(score) == IF score >= 70 THEN "low" ELSE IF score >= 40 THEN "medium" ELSE "high"

\* lines 52 and 61-80: github is githubResult, its summary block filled in
github(githubResult) ==
  IF githubResult /= Null /\ githubResult.hasSummary
  THEN githubResult @@
       [summary |-> [devOpsScore |-> devOpsScore(githubResult),
                     productionReady |-> productionReady(githubResult),
                     riskLevel |-> riskLevel(devOpsScore(githubResult))]]
  ELSE githubResult

\* lines 50-59
metrics(testResult) == IF testResult /= Null THEN parseK6Data(testResult) ELSE Null
charts(m) == IF m /= Null THEN buildChartResponse(m) ELSE Null

\* ------------------------------------------------------------ context string
\* the context is kept as its sections in order, each with its length in
\* characters
RECURSIVE Length(_)
Length(ctx) == IF ctx = <<>> THEN 0 ELSE Head(ctx).length + Length(Tail(ctx))

\* String.prototype.slice(0, n)
RECURSIVE Slice(_, _)
Slice(ctx, n) ==
  IF ctx = <<>> \/ n <= 0 THEN <<>>
  ELSE IF Head(ctx).length <= n
  THEN <<Head(ctx)>> \o Slice(Tail(ctx), n - Head(ctx).length)
  ELSE <<[Head(ctx) EXCEPT !.length = n]>>

\* characters of a non-negative integer in a template literal
RECURSIVE Digits(_)
Digits(n) == IF n < 10 THEN 1 ELSE 1 + Digits(n \div 10)

\* most digits JavaScript prints after the decimal point of a number
MaxFractionDigits == 16

\* characters of a number n/d in a template literal
RatWidth(x) ==
  Digits(x.num \div x.den) + (IF x.num % x.den = 0 THEN 0 ELSE 1 + MaxFractionDigits)

\* lines 85-86: safePercent(v), as the length of the text it returns
\* ("0.00" when v is not finite); v is in per mille, so v * 100 is v / 10
safePercent(v) == IF IsFinite(v) THEN Digits(v \div 10) + 3 ELSE 4

\* lines 88-89: safeNumber(v, fallback)
safeNumber(v, fallback) == IF IsFinite(v) THEN v ELSE fallback

\* length of the text of safeNumber(v) with the default fallback "N/A"
safeNumberWidth(v) == IF IsFinite(v) THEN Digits(v) ELSE 3

\* "Detected" or "Not detected"
DetectedWidth(present) == IF present THEN 8 ELSE 12

\* a loadTimeMs that is truthy
Truthy(n) == n /= NaN /\ n /= 0

\* lines 96-103
MetricsSection(m) ==
  [name |-> "metrics",
   length |-> 28 + (16 + safePercent(m.failureRateUnderTest) + 2)
                 + (15 + safeNumberWidth(m.latency.p95) + 4)
                 + (15 + safeNumberWidth(m.latency.avg) + 4)
                 + (14 + safeNumberWidth(m.throughput) + 7)
                 + (27 + safePercent(m.serverErrorRate) + 3)]

\* lines 105-109
RepositorySection(g) ==
  [name |-> "repository",
   length |-> 29 + (10 + DetectedWidth(g.docker) + 1) + (9 + DetectedWidth(g.cicd) + 1)
                 + (14 + DetectedWidth(g.kubernetes) + 2)]

\* lines 110-112: "Repository Signals: Not available (no repository provided)"
RepositoryNotice == [name |-> "repository-unavailable", length |-> 60]

\* lines 114-125
BrowserSection(p) ==
  [name |-> "browser",
   length |-> 37 + (21 + RatWidth(p.performance) + 5) + (23 + RatWidth(p.accessibility) + 5)
                 + (24 + RatWidth(p.bestPractices) + 5) + (13 + RatWidth(p.seo) + 5)
                 + (23 + RatWidth(p.interactivity) + 5)
                 + (IF Truthy(p.loadTimeMs) THEN 26 + Digits(p.loadTimeMs) + 4 ELSE 0)
                 + 1]

\* the context with the browser audit placed before the runtime metrics
context_BrowserFirst(targetLen, m, g, p) ==
  <<[name |-> "target", length |-> 19 + targetLen + 2]>>
  \o (IF p /= Null THEN <<BrowserSection(p)>> ELSE <<>>)
  \o (IF m /= Null THEN <<MetricsSection(m)>> ELSE <<>>)
  \o (IF g /= Null /\ g.hasSummary THEN <<RepositorySection(g)>> ELSE <<RepositoryNotice>>)

\* lines 94-125: targetLen is the length of testURL || githubRepo
context(targetLen, m, g, p) ==
  <<[name |-> "target", length |-> 19 + targetLen + 2]>>
  \o (IF m /= Null THEN <<MetricsSection(m)>> ELSE <<>>)
  \o (IF g /= Null /\ g.hasSummary THEN <<RepositorySection(g)>> ELSE <<RepositoryNotice>>)
  \o (IF p /= Null THEN <<BrowserSection(p)>> ELSE <<>>)

\* ----------------------------------------------------------- businessMetrics
RemediationCDN == "Enable CDN Edge Caching"
RemediationRedis == "Implement Redis Caching"
RemediationAutoScale == "Auto-Scale Infrastructure"
RemediationCICD == "Setup CI/CD Pipeline"

\* a metrics object none of whose fields is defined
UndefinedMetrics ==
  [tag |-> "metrics", latency |-> [avg |-> NaN, p95 |-> NaN], throughput |-> NaN,
   failureRateUnderTest |-> NaN, serverErrorRate |-> NaN, vus |-> NaN]

\* line 140: parseFloat(((safeNumber(avg, 0) / 1000) * 7).toFixed(1)), in tenths
conversionLoss(m) == Rat(Round(safeNumber(m.latency.avg, 0) * 7, 100), 10)

\* line 143: Math.round(failureRateUnderTest * throughput * 150 * 5)
adSpendRisk(m) ==
  IF IsFinite(m.failureRateUnderTest) /\ IsFinite(m.throughput)
  THEN Round(m.failureRateUnderTest * m.throughput * 150 * 5, 1000)
  ELSE NaN

\* stabilityRiskScore without Math.max(0, ...)
stabilityRiskScore_Unclamped(m) ==
  IF IsFinite(m.failureRateUnderTest) /\ IsFinite(m.latency.p95)
  THEN Rat(100 * 20 - m.failureRateUnderTest * 10 - m.latency.p95, 20)
  ELSE Rat(NaN, 20)

\* line 146: Math.max(0, 100 - failureRateUnderTest * 500 - p95 / 20), in
\* twentieths
stabilityRiskScore(m) ==
  IF IsFinite(m.failureRateUnderTest) /\ IsFinite(m.latency.p95)
  THEN LET x == 100 * 20 - m.failureRateUnderTest * 10 - m.latency.p95
       IN Rat(IF x > 0 THEN x ELSE 0, 20)
  ELSE Rat(NaN, 20)

\* collapsePoint with the comparison of line 149 inclusive (>= 0.05)
collapsePoint_Inclusive(m) ==
  IF IsFinite(m.vus)
  THEN Round(m.vus * (IF IsFinite(m.failureRateUnderTest) /\ m.failureRateUnderTest >= 50
                      THEN 9 ELSE 15), 10)
  ELSE NaN

\* line 149: Math.round(vus * (failureRateUnderTest > 0.05 ? 0.9 : 1.5))
collapsePoint(m) ==
  IF IsFinite(m.vus)
  THEN Round(m.vus * (IF IsFinite(m.failureRateUnderTest) /\ m.failureRateUnderTest > 50
                      THEN 9 ELSE 15), 10)
  ELSE NaN

\* lines 152-154: a comparison with an undefined operand is false
metricRemediations(m) ==
  (IF IsFinite(m.latency.p95) /\ m.latency.p95 > 500 THEN <<RemediationCDN>> ELSE <<>>)
  \o (IF IsFinite(m.throughput) /\ m.throughput < 100 THEN <<RemediationRedis>> ELSE <<>>)
  \o (IF IsFinite(m.serverErrorRate) /\ m.serverErrorRate > 0 THEN <<RemediationAutoScale>> ELSE <<>>)

\* lines 157-159
repositoryRemediations(g) ==
  IF g /= Null /\ ~g.cicd THEN <<RemediationCICD>> ELSE <<>>

\* businessMetrics without the guard of line 138: absent metrics are read
\* as an object without fields
businessMetrics_Unguarded(m, g) ==
  LET mm == IF m = Null THEN UndefinedMetrics ELSE m IN
  [conversionLoss |-> conversionLoss(mm),
   adSpendRisk |-> adSpendRisk(mm),
   stabilityRiskScore |-> stabilityRiskScore(mm),
   collapsePoint |-> collapsePoint(mm),
   remediations |-> metricRemediations(mm) \o repositoryRemediations(g)]

\* businessMetrics with the repository check made before the metric checks
businessMetrics_RepositoryFirst(m, g) ==
  IF m = Null
  THEN [conversionLoss |-> Rat(0, 10), adSpendRisk |-> 0, stabilityRiskScore |-> Rat(0, 20),
        collapsePoint |-> 0, remediations |-> repositoryRemediations(g)]
  ELSE [conversionLoss |-> conversionLoss(m),
        adSpendRisk |-> adSpendRisk(m),
        stabilityRiskScore |-> stabilityRiskScore(m),
        collapsePoint |-> collapsePoint(m),
        remediations |-> repositoryRemediations(g) \o metricRemediations(m)]

\* businessMetrics with the remediation list kept across requests instead of
\* being created by the literal of lines 130-136
businessMetrics_Retained(m, g) ==
  LET left == IF agg.tag = "repeat" /\ agg.runs /= <<>>
              THEN agg.runs[Len(agg.runs)].businessMetrics.remediations
              ELSE <<>>
  IN
  IF m = Null
  THEN [conversionLoss |-> Rat(0, 10), adSpendRisk |-> 0, stabilityRiskScore |-> Rat(0, 20),
        collapsePoint |-> 0, remediations |-> left \o repositoryRemediations(g)]
  ELSE [conversionLoss |-> conversionLoss(m),
        adSpendRisk |-> adSpendRisk(m),
        stabilityRiskScore |-> stabilityRiskScore(m),
        collapsePoint |-> collapsePoint(m),
        remediations |-> left \o metricRemediations(m) \o repositoryRemediations(g)]

\* lines 130-159
businessMetrics(m, g) ==
  IF m = Null
  THEN [conversionLoss |-> Rat(0, 10), adSpendRisk |-> 0, stabilityRiskScore |-> Rat(0, 20),
        collapsePoint |-> 0, remediations |-> repositoryRemediations(g)]
  ELSE [conversionLoss |-> conversionLoss(m),
        adSpendRisk |-> adSpendRisk(m),
        stabilityRiskScore |-> stabilityRiskScore(m),
        collapsePoint |-> collapsePoint(m),
        remediations |-> metricRemediations(m) \o repositoryRemediations(g)]

\* lines 50-159: what the handler computes between the join and the
\* narrative, from the metrics and the results of the other two probes
Aggregate(targetLen, m, githubResult, playwrightResult) ==
  [tag |-> "aggregate",
   targetLen |-> targetLen,
   metrics |-> m,
   charts |-> charts(m),
   githubResult |-> githubResult,
   github |-> github(githubResult),
   playwrightResult |-> playwrightResult,
   context |-> context(targetLen, m, githubResult, playwrightResult),
   businessMetrics |-> businessMetrics(m, githubResult)]

ErrorResponse(code) == [tag |-> "error", status |-> code]

\* OrchLaunch with the three probes started for every valid request,
\* whichever target was supplied
OrchLaunch_AllProbes ==
  /\ opc = "start"
  /\ IF ~req.testURL /\ ~req.githubRepo
     THEN /\ response' = ErrorResponse(400)
          /\ opc' = "done"
          /\ UNCHANGED <<k6, pw, gh>>
     ELSE /\ opc' = "probes"
          /\ runK6Test(OrchProbe) /\ pw' = runPlaywrightAudit(pw, FALSE)
          /\ gh' = Pending
          /\ UNCHANGED response
  /\ UNCHANGED <<now, fs, req, mode, agg, ai>>

\* lines 16-45: validation, then the probes whose target was supplied are
\* started in one turn
OrchLaunch ==
  /\ opc = "start"
  /\ IF ~req.testURL /\ ~req.githubRepo
     THEN /\ response' = ErrorResponse(400)
          /\ opc' = "done"
          /\ UNCHANGED <<k6, pw, gh>>
     ELSE /\ opc' = "probes"
          /\ IF req.testURL
             THEN runK6Test(OrchProbe) /\ pw' = runPlaywrightAudit(pw, FALSE)
             ELSE UNCHANGED <<k6, pw>>
          /\ gh' = IF req.githubRepo THEN Pending ELSE gh
          /\ UNCHANGED response
  /\ UNCHANGED <<now, fs, req, mode, agg, ai>>

\* lines 26-159: the await of Promise.all resumes and the handler aggregates
OrchJoin ==
  LET all == PromiseAll(ProbePromises) IN
  /\ opc = "probes"
  /\ all.status /= "pending"
  /\ IF all.status = "rejected"
     THEN /\ response' = ErrorResponse(500)
          /\ opc' = "done"
          /\ UNCHANGED agg
     ELSE /\ agg' = Aggregate(req.targetLen, metrics(all.value[1]), all.value[2], all.value[3])
          /\ opc' = "ai"
          /\ UNCHANGED response
  /\ UNCHANGED <<now, fs, k6, req, mode, gh, pw, ai>>

MsgNoMetrics == "Load Test Failed: No runtime metrics were collected. The target may be unreachable."
MsgFallback == "**SynthMind AI Verdict**\n\nAnalysis completed. Refer to metrics."
MsgFailed == "SynthMind AI could not generate the live audit."

\* line 181: the cap of the context handed to the narrative service
ContextCap == 6000

\* longest response string of the narrative service in the model
MaxResponseLen == 3

\* a message is one of the fixed texts or the text of a response
FixedMessage(msg) == [fixed |-> msg, text |-> <<>>]
ResponseMessage(text) == [fixed |-> "", text |-> text]

\* what getresponseopenrouter(messages) does: it resolves with a string of
\* blanks and other characters, resolves with something that is not a string,
\* or throws
NarrativeOutcomes ==
  { [kind |-> "string", text |-> t] :
      t \in UNION { [1..n -> {" ", "x"}] : n \in 0..MaxResponseLen } }
  \cup { [kind |-> "nonstring", text |-> <<>>], [kind |-> "throws", text |-> <<>>] }

\* String.prototype.trim
RECURSIVE trim(_)
trim(t) ==
  IF t = <<>> THEN <<>>
  ELSE IF Head(t) = " " THEN trim(Tail(t))
  ELSE IF t[Len(t)] = " " THEN trim(SubSeq(t, 1, Len(t) - 1))
  ELSE t

\* line 182: characters of JSON.stringify(metrics, null, 2), at least the
\* braces and the six field names
MetricsJsonWidth(m) == 100 + safeNumberWidth(m.throughput) + safeNumberWidth(m.vus)

\* the context handed on without the slice of line 181
safeContext_NoSlice(ctx, m) ==
  IF Length(ctx) > 0 THEN ctx
  ELSE <<[name |-> "metrics-json", length |-> 17 + MetricsJsonWidth(m)]>>

\* lines 179-182: a context that is a non-blank string is cut to the cap,
\* anything else is replaced by the metrics as JSON
safeContext(ctx, m) ==
  IF Length(ctx) > 0 THEN Slice(ctx, ContextCap)
  ELSE <<[name |-> "metrics-json", length |-> 17 + MetricsJsonWidth(m)]>>

\* the response taken as the message whenever it is a string
aiResponseMsg_NoTrim(outcome) ==
  IF outcome.kind = "throws" THEN FixedMessage(MsgFailed)
  ELSE IF outcome.kind = "string"
  THEN ResponseMessage(outcome.text)
  ELSE FixedMessage(MsgFallback)

\* lines 230-241
aiResponseMsg(outcome) ==
  IF outcome.kind = "throws" THEN FixedMessage(MsgFailed)
  ELSE IF outcome.kind = "string" /\ Len(trim(outcome.text)) > 0
  THEN ResponseMessage(trim(outcome.text))
  ELSE FixedMessage(MsgFallback)

\* lines 164-254
runLiveAuditAI(outcome) ==
  /\ opc = "ai"
  /\ ai' = IF agg.metrics = Null
           THEN [tag |-> "ai", called |-> FALSE, safeContext |-> <<>>,
                 outcome |-> [kind |-> "none", text |-> <<>>],
                 message |-> FixedMessage(MsgNoMetrics)]
           ELSE [tag |-> "ai", called |-> TRUE,
                 safeContext |-> safeContext(agg.context, agg.metrics),
                 outcome |-> outcome,
                 message |-> aiResponseMsg(outcome)]
  /\ opc' = "save"
  /\ UNCHANGED <<now, fs, k6, req, mode, gh, pw, agg, response>>

\* lines 257-272: newSession.save()
SaveSession(throws) ==
  /\ opc = "save"
  /\ IF throws
     THEN response' = ErrorResponse(500) /\ opc' = "done"
     ELSE opc' = "saveUser" /\ UNCHANGED response
  /\ UNCHANGED <<now, fs, k6, req, mode, gh, pw, agg, ai>>

\* lines 275-303: req.user.save() in its own try, then res.json
SaveUserAndRespond(throws) ==
  /\ opc = "saveUser"
  /\ response' = [tag |-> "result", status |-> 200,
                  metrics |-> agg.metrics,
                  browserMetrics |-> agg.playwrightResult,
                  charts |-> agg.charts,
                  github |-> agg.github,
                  ai |-> ai.message,
                  lastSessionSaved |-> ~throws]
  /\ opc' = "done"
  /\ UNCHANGED <<now, fs, k6, req, mode, gh, pw, agg, ai>>

\* ---------------------------------------------------------------------- Spec
\* lengths of testURL || githubRepo
TargetLens == {24, 7000}

Init ==
  /\ now = 0
  /\ fs = [f \in Clock |-> NoFile]
  /\ k6 = [i \in Probes |-> K6Idle]
  /\ req \in [testURL : BOOLEAN, githubRepo : BOOLEAN, targetLen : TargetLens]
  /\ mode \in {"demo", "live"}
  /\ opc = "start"
  /\ gh = NotStarted
  /\ pw = PwIdle
  /\ agg = Null
  /\ ai = Null
  /\ response = Null

Next ==
  \/ Tick
  \/ OrchLaunch
  \/ \E verErr \in BOOLEAN : K6VersionCallback(OrchProbe, verErr)
  \/ \E kind \in {"json", "garbage"}, s \in Samples : K6GeneratorWrite(OrchProbe, kind, s)
  \/ K6Wait(OrchProbe)
  \/ \E error \in BOOLEAN, readThrows \in BOOLEAN, unlinkThrows \in BOOLEAN :
       K6ExecCallback(OrchProbe, error, readThrows, unlinkThrows)
  \/ \E throws \in BOOLEAN, obs \in SpecPages : PwAwait(throws, obs)
  \/ PwCatch
  \/ \E throws \in BOOLEAN : PwCatchClose(throws)
  \/ \E rnd \in SpecDraws : PwSimTimer(rnd)
  \/ \E outcome \in {Fulfilled(g) : g \in GithubResults} \cup {Rejected("github")} :
       GithubSettle(outcome)
  \/ OrchJoin
  \/ \E outcome \in NarrativeOutcomes : runLiveAuditAI(outcome)
  \/ \E throws \in BOOLEAN : SaveSession(throws)
  \/ \E throws \in BOOLEAN : SaveUserAndRespond(throws)

Spec == Init /\ [][Next]_vars

\* ------------------------------------------------------------------ LoadSpec
OrchIdle ==
  /\ opc = "start"
  /\ gh = NotStarted
  /\ pw = PwIdle
  /\ agg = Null
  /\ ai = Null
  /\ response = Null

InitLoad ==
  /\ now = 0
  /\ fs = [f \in Clock |-> NoFile]
  /\ k6 = [i \in Probes |-> K6Idle]
  /\ req = [testURL |-> TRUE, githubRepo |-> FALSE, targetLen |-> 24]
  /\ mode = "live"
  /\ OrchIdle

NextLoad ==
  \/ Tick
  \/ \E i \in Probes : K6Invoke(i)
  \/ \E i \in Probes, verErr \in BOOLEAN : K6VersionCallback(i, verErr)
  \/ \E i \in Probes, kind \in {"json", "garbage"}, s \in Samples : K6GeneratorWrite(i, kind, s)
  \/ \E i \in Probes : K6Wait(i)
  \/ \E i \in Probes, error \in BOOLEAN, readThrows \in BOOLEAN, unlinkThrows \in BOOLEAN :
       K6ExecCallback(i, error, readThrows, unlinkThrows)

LoadSpec == InitLoad /\ [][NextLoad]_vars

\* ----------------------------------------------------------------- AuditSpec
\* runPlaywrightAudit on its own, over every page and every random draw
InitAudit ==
  /\ now = 0
  /\ fs = [f \in Clock |-> NoFile]
  /\ k6 = [i \in Probes |-> K6Idle]
  /\ req = [testURL |-> TRUE, githubRepo |-> FALSE, targetLen |-> 24]
  /\ mode \in {"demo", "live"}
  /\ OrchIdle

NextAudit ==
  \/ PwInvoke
  \/ \E throws \in BOOLEAN, obs \in Pages : PwAwait(throws, obs)
  \/ PwCatch
  \/ \E throws \in BOOLEAN : PwCatchClose(throws)
  \/ \E rnd \in RandomDraws : PwSimTimer(rnd)

AuditSpec == InitAudit /\ [][NextAudit]_vars

\* ------------------------------------------------------------------ CalcSpec
\* the computation of lines 50-159 as a function of the metrics and of the
\* results of the repository and browser probes
MetricsInputs ==
  {Null} \cup
  { [tag |-> "metrics", latency |-> [avg |-> a, p95 |-> p], throughput |-> t,
     failureRateUnderTest |-> f, serverErrorRate |-> e, vus |-> v] :
      a \in {NaN, 1000}, p \in {NaN, 0, 500, 600, 1999, 2000}, t \in {NaN, 50, 100},
      f \in {NaN, 0, 50, 51, 199, 200, 1000}, e \in {NaN, 0, 20}, v \in {NaN, 101, Vus} }

SignalsInputs ==
  {Null} \cup
  { Signals(sm, d, c, k, h) :
      sm \in BOOLEAN, d \in BOOLEAN, c \in BOOLEAN, k \in BOOLEAN, h \in BOOLEAN }

AuditInputs ==
  {Null} \cup { finalResult(pg.loadTime, auditResults(pg)) : pg \in SpecPages }
         \cup { mockResult(rnd) : rnd \in SpecDraws }

InitCalc ==
  /\ now = 0
  /\ fs = [f \in Clock |-> NoFile]
  /\ k6 = [i \in Probes |-> K6Idle]
  /\ req = [testURL |-> TRUE, githubRepo |-> TRUE, targetLen |-> 24]
  /\ mode = "live"
  /\ opc = "probes"
  /\ gh = NotStarted
  /\ pw = PwIdle
  /\ agg \in { [tag |-> "inputs", targetLen |-> n, metrics |-> m,
                githubResult |-> g, playwrightResult |-> p] :
                 n \in {24}, m \in MetricsInputs, g \in SignalsInputs, p \in AuditInputs }
  /\ ai = Null
  /\ response = Null

\* lines 50-159 applied to the inputs
CalcAggregate ==
  /\ agg.tag = "inputs"
  /\ agg' = Aggregate(agg.targetLen, agg.metrics, agg.githubResult, agg.playwrightResult)
  /\ UNCHANGED <<now, fs, k6, req, mode, opc, gh, pw, ai, response>>

NextCalc == CalcAggregate

CalcSpec == InitCalc /\ [][NextCalc]_vars

\* ---------------------------------------------------------------- RepeatSpec
\* several requests handled one after the other by the same process; each
\* evaluates lines 130-159 on the metrics and repository signals it joined
OtherInputs ==
  { [metrics |-> parseK6Data(RawSummary(1)),
     githubResult |-> Signals(TRUE, TRUE, FALSE, TRUE, TRUE)] }

InitRepeat ==
  /\ now = 0
  /\ fs = [f \in Clock |-> NoFile]
  /\ k6 = [i \in Probes |-> K6Idle]
  /\ req = [testURL |-> TRUE, githubRepo |-> TRUE, targetLen |-> 24]
  /\ mode = "live"
  /\ opc = "probes"
  /\ gh = NotStarted
  /\ pw = PwIdle
  /\ agg \in { [tag |-> "repeat", metrics |-> m, githubResult |-> g, runs |-> <<>>] :
                 m \in MetricsInputs, g \in {Null} \cup GithubResults }
  /\ ai = Null
  /\ response = Null

\* one request computes its businessMetrics from the inputs m and g
CalcRequest(m, g) ==
  /\ agg.tag = "repeat"
  /\ Len(agg.runs) < MaxRuns
  /\ agg' = [agg EXCEPT !.runs = Append(@, [metrics |-> m, githubResult |-> g,
                                            businessMetrics |-> businessMetrics(m, g)])]
  /\ UNCHANGED <<now, fs, k6, req, mode, opc, gh, pw, ai, response>>

NextRepeat ==
  \/ CalcRequest(agg.metrics, agg.githubResult)
  \/ \E o \in OtherInputs : CalcRequest(o.metrics, o.githubResult)

RepeatSpec == InitRepeat /\ [][NextRepeat]_vars

\* ------------------------------------------------------------------ FairSpec
\* The event loop runs every callback whose event has occurred, and the
\* collaborators with a deadline of their own settle.  exec(cmd) has no
\* timeout, so nothing makes the generator exit.
FairSpec ==
  /\ Spec
  /\ WF_vars(OrchLaunch)
  /\ WF_vars(\E verErr \in BOOLEAN : K6VersionCallback(OrchProbe, verErr))
  /\ WF_vars(\E throws \in BOOLEAN, obs \in SpecPages : PwAwait(throws, obs))
  /\ WF_vars(PwCatch)
  /\ WF_vars(\E throws \in BOOLEAN : PwCatchClose(throws))
  /\ WF_vars(\E rnd \in SpecDraws : PwSimTimer(rnd))
  /\ WF_vars(\E outcome \in {Fulfilled(g) : g \in GithubResults} \cup {Rejected("github")} :
               GithubSettle(outcome))
  /\ WF_vars(OrchJoin)
  /\ WF_vars(\E outcome \in NarrativeOutcomes : runLiveAuditAI(outcome))
  /\ WF_vars(\E throws \in BOOLEAN : SaveSession(throws))
  /\ WF_vars(\E throws \in BOOLEAN : SaveUserAndRespond(throws))

\* ==================================================================== claims
ValidRequest == req.testURL \/ req.githubRepo

\* the handler has resumed from the await of Promise.all
PastJoin == opc \in {"ai", "save", "saveUser"} \/ (opc = "done" /\ ValidRequest)

\* every probe the handler launched has settled
LaunchedSettled ==
  /\ req.testURL => k6[OrchProbe].promise.status /= "pending" /\ pw.promise.status /= "pending"
  /\ req.githubRepo => gh.status /= "pending"

\* C1: the handler resumes from the join, to aggregate or otherwise, only
\* when every probe it launched has settled by success or by failure; a
\* failed probe never lets it resume while a sibling is still running.
C1_JoinAfterAllSettled == PastJoin => LaunchedSettled

\* C1 witness: aggregation has started after the load probe failed and the
\* repository probe succeeded.
C1_Witness ==
  /\ opc = "ai"
  /\ req.testURL /\ req.githubRepo
  /\ k6[OrchProbe].promise.status = "rejected"
  /\ gh.status = "fulfilled"
  /\ pw.promise.status = "fulfilled"

SameSignals(a, b) ==
  /\ a.docker = b.docker
  /\ a.cicd = b.cicd
  /\ a.kubernetes = b.kubernetes
  /\ a.hasStartScript = b.hasStartScript

\* the field of a probe in the aggregate: null when the probe was not
\* launched or failed, its own result when it succeeded
LoadIsolated ==
  IF req.testURL /\ k6[OrchProbe].promise.status = "fulfilled"
  THEN /\ agg.metrics = parseK6Data(k6[OrchProbe].promise.value)
       /\ agg.charts = buildChartResponse(agg.metrics)
  ELSE agg.metrics = Null /\ agg.charts = Null

RepositoryIsolated ==
  IF req.githubRepo /\ gh.status = "fulfilled"
  THEN agg.github /= Null /\ SameSignals(agg.github, gh.value)
  ELSE agg.github = Null

BrowserIsolated ==
  IF req.testURL /\ pw.promise.status = "fulfilled"
  THEN agg.playwrightResult = pw.promise.value
  ELSE agg.playwrightResult = Null

\* C2: whatever subset of the launched probes failed, once the handler has
\* resumed from the join the aggregate exists, each probe that succeeded has
\* its own result in it, each failed probe is a null field, and the result
\* object sent carries the same fields.
C2_FaultIsolation ==
  PastJoin =>
    /\ agg /= Null
    /\ LoadIsolated
    /\ RepositoryIsolated
    /\ BrowserIsolated
    /\ (opc = "done" /\ response.tag = "result") =>
         /\ response.metrics = agg.metrics
         /\ response.github = agg.github
         /\ response.browserMetrics = agg.playwrightResult

\* C2 witness: a result was sent in which the load probe failed (null
\* metrics) while the repository and browser results are present.
C2_Witness ==
  /\ opc = "done"
  /\ response.tag = "result"
  /\ req.testURL /\ req.githubRepo
  /\ k6[OrchProbe].promise.status = "rejected"
  /\ response.metrics = Null
  /\ response.github /= Null
  /\ response.browserMetrics /= Null

\* C3: every valid request is eventually answered, whatever the generator,
\* the browser, the analyzer and the narrative service do.
C3_Terminates == ValidRequest => <>(opc = "done")

\* C4: the handler answers with an error instead of a result object only
\* when the request is invalid (neither testURL nor githubRepo).
C4_ErrorOnlyWhenInvalid ==
  opc = "done" => (response.tag = "error" <=> ~ValidRequest)

\* a runK6Test invocation that has named its result file and not settled
InFlight(i) == k6[i].pc \in {"version", "running"}

\* C5: two runK6Test invocations in flight at the same time never use the
\* same result file name.
C5_DistinctResultFiles ==
  \A i, j \in Probes :
    (i /= j /\ InFlight(i) /\ InFlight(j)) => k6[i].resultFile /= k6[j].resultFile

\* C6: a generator that has not exited is waited for at most the requested
\* duration plus the grace period; after that the probe has settled.
C6_BoundedWait ==
  \A i \in Probes : k6[i].pc = "running" => k6[i].waited <= Duration + Grace

\* C7: the load-generation command runs only after a successful version
\* check; a failed check rejects with the engine-unavailable message and the
\* command never runs.
C7_VersionCheckFirst ==
  \A i \in Probes :
    /\ k6[i].cmdRan => k6[i].verResult = "ok"
    /\ k6[i].verResult = "err" =>
         /\ k6[i].pc = "settled"
         /\ k6[i].promise = Rejected(ReasonEngineUnavailable)
         /\ ~k6[i].cmdRan
         /\ ~k6[i].wrote

\* C7 witness: a version check failed and the invocation was rejected.
C7_Witness ==
  \E i \in Probes : k6[i].verResult = "err" /\ k6[i].promise.status = "rejected"

\* C8: each failure cause of the load probe has a reason of its own: a
\* generator error gives execution-failed, a missing file output-missing, an
\* unparsable file the read/parse reason, and nothing but an unparsable file
\* is reported under that last reason.
C8_ReasonPerCause ==
  \A i \in Probes :
    k6[i].promise.status = "rejected" =>
      /\ k6[i].cause = "exec-error" <=> k6[i].promise.reason = ReasonExecutionFailed
      /\ k6[i].cause = "missing" <=> k6[i].promise.reason = ReasonOutputMissing
      /\ k6[i].cause = "parse-error" <=> k6[i].promise.reason = ReasonReadFailed

\* C9: when the generator exited with success and the result file existed
\* and held JSON, the probe is fulfilled even though deleting the file failed.
C9_DeletionBestEffort ==
  \A i \in Probes :
    (k6[i].cause = "unlink-error" /\ k6[i].seen = "json") =>
      k6[i].promise.status = "fulfilled"

\* C10: the browser probe never rejects; when a step of the real audit threw
\* it is fulfilled with the simulation result, the simulation path having been
\* entered exactly once.
C10_NeverFails ==
  /\ pw.promise.status /= "rejected"
  /\ pw.simEntries <= 1
  /\ (pw.pc = "settled" /\ pw.failedAt /= "none") =>
       /\ pw.promise.status = "fulfilled"
       /\ pw.promise.value.path = "simulation"
       /\ pw.simEntries = 1

\* the five scores of an audit
Scores(a) == {a.performance, a.accessibility, a.bestPractices, a.seo, a.interactivity}

\* C11: an audit is flagged as simulated exactly when the simulation path
\* produced it.
C11_SimulatedFlag ==
  pw.promise.status = "fulfilled" =>
    (pw.promise.value.isSimulated <=> pw.promise.value.path = "simulation")

\* C12: when the probe has returned, a browser session it launched is closed.
C12_SessionClosed ==
  pw.pc = "settled" => pw.browser \in {"none", "closed"}

\* C13: the five scores of every audit the probe returns are integers
\* between 0 and 100.
C13_IntegerScores ==
  pw.promise.status = "fulfilled" =>
    \A x \in Scores(pw.promise.value) :
      /\ x.num % x.den = 0
      /\ 0 <= x.num
      /\ x.num <= 100 * x.den

\* the derived scores have been computed
Aggregated == agg.tag = "aggregate"

ZeroScores ==
  /\ agg.businessMetrics.conversionLoss.num = 0
  /\ agg.businessMetrics.adSpendRisk = 0
  /\ agg.businessMetrics.stabilityRiskScore.num = 0
  /\ agg.businessMetrics.collapsePoint = 0

\* C14 as claimed: without metrics the four scores are 0 and the remediation
\* list is empty, whatever the repository signals.
C14_EmptyWithoutMetrics ==
  (Aggregated /\ agg.metrics = Null) =>
    ZeroScores /\ agg.businessMetrics.remediations = <<>>

\* C14 as amended: without metrics the four scores are 0 and the remediation
\* list holds no metric-derived item; it is empty unless repository signals
\* are present without CI/CD, and then it holds exactly the CI/CD item.
C14_ZeroWithoutMetrics ==
  (Aggregated /\ agg.metrics = Null) =>
    /\ ZeroScores
    /\ agg.businessMetrics.remediations =
         IF agg.githubResult /= Null /\ ~agg.githubResult.cicd
         THEN <<RemediationCICD>> ELSE <<>>

\* C14 witness: metrics absent, repository without CI/CD.
C14_Witness ==
  /\ Aggregated
  /\ agg.metrics = Null
  /\ agg.githubResult /= Null
  /\ ~agg.githubResult.cicd
  /\ agg.businessMetrics.remediations = <<RemediationCICD>>

FixedOrder == <<RemediationCDN, RemediationRedis, RemediationAutoScale, RemediationCICD>>

Position(item) == CHOOSE n \in 1..Len(FixedOrder) : FixedOrder[n] = item

\* the trigger of a remediation item on the inputs of the calculation
Trigger(item) ==
  LET m == agg.metrics
      g == agg.githubResult
  IN CASE item = RemediationCDN ->
            m /= Null /\ IsFinite(m.latency.p95) /\ m.latency.p95 > 500
       [] item = RemediationRedis ->
            m /= Null /\ IsFinite(m.throughput) /\ m.throughput < 100
       [] item = RemediationAutoScale ->
            m /= Null /\ IsFinite(m.serverErrorRate) /\ m.serverErrorRate > 0
       [] item = RemediationCICD ->
            g /= Null /\ ~g.cicd

\* C15: the remediation list follows the fixed order without repetition, and
\* an item is in it exactly when its trigger holds.
C15_RemediationOrder ==
  Aggregated =>
    LET r == agg.businessMetrics.remediations IN
    /\ \A i, j \in 1..Len(r) : i < j => Position(r[i]) < Position(r[j])
    /\ \A n \in 1..Len(FixedOrder) :
         (\E i \in 1..Len(r) : r[i] = FixedOrder[n]) <=> Trigger(FixedOrder[n])

\* C15 witness: all four triggers hold and all four items are listed.
C15_Witness ==
  /\ Aggregated
  /\ agg.businessMetrics.remediations = FixedOrder

\* C16: with metrics present, whatever fields are missing or non-finite,
\* the four derived scores are finite numbers.
C16_FiniteScores ==
  (Aggregated /\ agg.metrics /= Null) =>
    /\ IsFinite(agg.businessMetrics.conversionLoss.num)
    /\ IsFinite(agg.businessMetrics.adSpendRisk)
    /\ IsFinite(agg.businessMetrics.stabilityRiskScore.num)
    /\ IsFinite(agg.businessMetrics.collapsePoint)

Weight(present, w) == IF present THEN w ELSE 0

\* C17: for signals with a summary block, devOpsScore is
\* 30*docker + 30*cicd + 20*kubernetes + 20*hasStartScript, productionReady
\* holds exactly when start script, docker and cicd are present, and
\* riskLevel is low from 70, medium from 40 and high below.
C17_DevOpsSummary ==
  (Aggregated /\ agg.githubResult /= Null /\ agg.githubResult.hasSummary) =>
    LET g == agg.githubResult
        sum == agg.github.summary
    IN /\ sum.devOpsScore = Weight(g.docker, 30) + Weight(g.cicd, 30)
                            + Weight(g.kubernetes, 20) + Weight(g.hasStartScript, 20)
       /\ sum.productionReady <=> (g.hasStartScript /\ g.docker /\ g.cicd)
       /\ sum.riskLevel = "low" <=> sum.devOpsScore >= 70
       /\ sum.riskLevel = "medium" <=> (sum.devOpsScore >= 40 /\ sum.devOpsScore < 70)
       /\ sum.riskLevel = "high" <=> sum.devOpsScore < 40

\* C17 witness: docker, kubernetes and a start script without CI/CD score 70,
\* which is low risk and not production ready.
C17_Witness ==
  /\ Aggregated
  /\ agg.githubResult /= Null
  /\ agg.githubResult.hasSummary
  /\ agg.github.summary.devOpsScore = 70
  /\ agg.github.summary.riskLevel = "low"
  /\ ~agg.github.summary.productionReady

\* what a section of the context is about
Topic(name) == IF name = "repository-unavailable" THEN "repository" ELSE name

Optional(present, name) == IF present THEN <<name>> ELSE <<>>

HasSignals == agg.githubResult /= Null /\ agg.githubResult.hasSummary

\* C18 as claimed: the context holds, after the target line, the sections
\* metrics, repository, browser in that order, and holds text about a section
\* only when its data is present.
C18_SectionsOnlyWhenPresent ==
  Aggregated =>
    [i \in 1..Len(agg.context) |-> Topic(agg.context[i].name)] =
      <<"target">> \o Optional(agg.metrics /= Null, "metrics")
                   \o Optional(HasSignals, "repository")
                   \o Optional(agg.playwrightResult /= Null, "browser")

\* C18 as amended: the order is fixed, the metrics and browser sections
\* appear only when their data is present, and in place of the repository
\* section a one-line "not available" notice appears when there are no
\* repository signals with a summary.
C18_SectionOrder ==
  Aggregated =>
    /\ [i \in 1..Len(agg.context) |-> agg.context[i].name] =
         <<"target">> \o Optional(agg.metrics /= Null, "metrics")
                      \o (IF HasSignals THEN <<"repository">> ELSE <<"repository-unavailable">>)
                      \o Optional(agg.playwrightResult /= Null, "browser")
    /\ \A i \in 1..Len(agg.context) : agg.context[i].length > 0

\* C18 witness: all three inputs absent; the context is the target line and
\* the repository notice.
C18_Witness ==
  /\ Aggregated
  /\ agg.metrics = Null
  /\ agg.githubResult = Null
  /\ agg.playwrightResult = Null
  /\ Len(agg.context) = 2
  /\ agg.context[2] = RepositoryNotice

\* C19: the context handed to the narrative service is never longer than
\* 6000 characters.
C19_ContextCapped ==
  (ai.tag = "ai" /\ ai.called) => Length(ai.safeContext) <= ContextCap

\* C19 witness: the service was called with a context that was longer than
\* the cap before the cut.
C19_Witness ==
  /\ ai.tag = "ai"
  /\ ai.called
  /\ Length(agg.context) > ContextCap
  /\ Length(ai.safeContext) = ContextCap

AllBlank(t) == \A i \in 1..Len(t) : t[i] = " "

\* C20: runLiveAuditAI always returns a non-empty message: the fixed failure
\* text when the service throws, the fixed fallback text when the response is
\* not a string or is blank, and otherwise the response without its leading
\* and trailing blanks.
C20_NarrativeFallback ==
  ai.tag = "ai" =>
    LET o == ai.outcome
        msg == ai.message
    IN /\ msg.fixed /= "" \/ Len(msg.text) > 0
       /\ ~ai.called => msg = FixedMessage(MsgNoMetrics)
       /\ (ai.called /\ o.kind = "throws") => msg = FixedMessage(MsgFailed)
       /\ (ai.called /\ (o.kind = "nonstring" \/ (o.kind = "string" /\ AllBlank(o.text)))) =>
            msg = FixedMessage(MsgFallback)
       /\ (ai.called /\ o.kind = "string" /\ ~AllBlank(o.text)) =>
            /\ msg.fixed = ""
            /\ \E a, b \in 1..Len(o.text) :
                 /\ a <= b
                 /\ msg.text = SubSeq(o.text, a, b)
                 /\ o.text[a] /= " " /\ o.text[b] /= " "
                 /\ \A i \in 1..Len(o.text) : (i < a \/ i > b) => o.text[i] = " "

\* C20 witness: a response with a blank on either side of its text was
\* returned trimmed.
C20_Witness ==
  /\ ai.tag = "ai"
  /\ ai.called
  /\ ai.outcome.kind = "string"
  /\ ai.outcome.text = <<" ", "x", " ">>
  /\ ai.message = ResponseMessage(<<"x">>)

\* C21: a request whose load probe failed is answered with a result object in
\* which metrics and charts are null and whose narrative message is the fixed
\* text saying that no runtime metrics were collected.
C21_FailedLoadReported ==
  (opc = "done" /\ req.testURL /\ k6[OrchProbe].promise.status = "rejected") =>
    /\ response.tag = "result"
    /\ response.metrics = Null
    /\ response.charts = Null
    /\ response.ai = FixedMessage(MsgNoMetrics)

RatesInRange(m) ==
  /\ m /= Null
  /\ IsFinite(m.failureRateUnderTest)
  /\ 0 <= m.failureRateUnderTest /\ m.failureRateUnderTest <= 1000
  /\ IsFinite(m.latency.p95)
  /\ 0 <= m.latency.p95

\* C24: for such metrics stabilityRiskScore is max(0, 100 - failureRate*500 -
\* p95/20), lies between 0 and 100, and is 0 whenever the failure rate is at
\* least 0.2 or the p95 latency at least 2000 ms.
C24_StabilityScore ==
  (Aggregated /\ RatesInRange(agg.metrics)) =>
    LET f == agg.metrics.failureRateUnderTest
        p95 == agg.metrics.latency.p95
        score == agg.businessMetrics.stabilityRiskScore
        \* 20 * (100 - (f/1000)*500 - p95/20)
        raw == 2000 - 10 * f - p95
    IN /\ score.den = 20
       /\ raw >= 0 => score.num = raw
       /\ raw < 0 => score.num = 0
       /\ 0 <= score.num /\ score.num <= 100 * score.den
       /\ (f >= 200 \/ p95 >= 2000) => score.num = 0

\* C24 witness: failure rate 0.2 and p95 600 ms, where the formula is clamped
\* (100 - 100 - 30 is negative) and the score is 0.
C24_Witness ==
  /\ Aggregated
  /\ RatesInRange(agg.metrics)
  /\ agg.metrics.failureRateUnderTest = 200
  /\ agg.metrics.latency.p95 = 600
  /\ agg.businessMetrics.stabilityRiskScore = Rat(0, 20)

\* the nearest integer to n/d, halves upwards, as the quotient and remainder
\* of the division
Nearest(n, d) == IF 2 * (n % d) >= d THEN n \div d + 1 ELSE n \div d

\* C25: with metrics that carry a vus count, collapsePoint is round(0.9*vus)
\* exactly when failureRateUnderTest is strictly greater than 0.05 and
\* round(1.5*vus) otherwise (at exactly 0.05 too); with 200 virtual users it
\* is 180 or 300.
C25_CollapsePoint ==
  (Aggregated /\ agg.metrics /= Null /\ IsFinite(agg.metrics.vus)) =>
    LET f == agg.metrics.failureRateUnderTest
        vus == agg.metrics.vus
        cp == agg.businessMetrics.collapsePoint
    IN /\ (IsFinite(f) /\ f > 50) => cp = Nearest(9 * vus, 10)
       /\ ~(IsFinite(f) /\ f > 50) => cp = Nearest(15 * vus, 10)
       /\ f = 50 => cp = Nearest(15 * vus, 10)
       /\ vus = Vus => cp \in {180, 300}
       /\ vus = Vus => (cp = 180 <=> (IsFinite(f) /\ f > 50))

\* C25 witness: a failure rate of exactly 0.05 with 200 virtual users gives
\* 300.
C25_Witness ==
  /\ Aggregated
  /\ agg.metrics /= Null
  /\ agg.metrics.failureRateUnderTest = 50
  /\ agg.metrics.vus = Vus
  /\ agg.businessMetrics.collapsePoint = 300

\* the probes of the request that have been started
LoadLaunched == k6[OrchProbe].pc /= "idle"
BrowserLaunched == pw.pc /= "idle"
RepositoryLaunched == gh.status /= "unstarted"

\* C26: before the validation no probe runs; after it the load probe and the
\* browser probe have been started exactly when testURL was given and the
\* repository probe exactly when githubRepo was given, so an invalid request
\* starts none.
C26_LaunchedWhenSupplied ==
  IF opc = "start"
  THEN ~LoadLaunched /\ ~BrowserLaunched /\ ~RepositoryLaunched
  ELSE /\ LoadLaunched <=> req.testURL
       /\ BrowserLaunched <=> req.testURL
       /\ RepositoryLaunched <=> req.githubRepo

\* C26 witness: a request with a repository and no URL is waiting for its
\* probes; only the repository probe was started.
C26_Witness ==
  /\ opc = "probes"
  /\ req.githubRepo /\ ~req.testURL
  /\ RepositoryLaunched
  /\ ~LoadLaunched /\ ~BrowserLaunched

\* C23: under any interleaving of concurrent invocations, a summary an
\* invocation resolves with was written by its own generator, and an
\* invocation whose generator wrote its file never reports the file missing.
C23_OwnResultFile ==
  \A i \in Probes :
    /\ k6[i].promise.status = "fulfilled" => k6[i].promise.value.writer = i
    /\ k6[i].cause = "missing" => ~k6[i].wrote

\* C27: once an invocation has settled, by success or by any failure, the
\* result file it named does not exist.
C27_NoFileLeftBehind ==
  \A i \in Probes :
    k6[i].pc = "settled" => ~fs[k6[i].resultFile].exists

\* signals with docker, kubernetes and a start script, without CI/CD
WithoutCICD == Signals(TRUE, TRUE, FALSE, TRUE, TRUE)

\* C28: for every combination of repository signals, productionReady implies
\* a devOpsScore of at least 80 and riskLevel "low"; the converse fails:
\* docker, kubernetes and a start script without CI/CD score 70, which is
\* "low" and not production ready.
C28_ReadyImpliesLow ==
  /\ (Aggregated /\ HasSignals) =>
       (agg.github.summary.productionReady =>
          /\ agg.github.summary.devOpsScore >= 80
          /\ agg.github.summary.riskLevel = "low")
  /\ devOpsScore(WithoutCICD) = 70
  /\ github(WithoutCICD).summary.riskLevel = "low"
  /\ ~github(WithoutCICD).summary.productionReady

\* C28 witness: start script, docker and CI/CD without kubernetes: production
\* ready with the least score, 80, and low risk.
C28_Witness ==
  /\ Aggregated
  /\ HasSignals
  /\ agg.github.summary.productionReady
  /\ ~agg.githubResult.kubernetes
  /\ agg.github.summary.devOpsScore = 80
  /\ agg.github.summary.riskLevel = "low"

====
